---- MODULE Spec2Model ----
(***************************************************************************)
(* LockBox: the server actions of src/lib/actions.ts (bank CRUD, user      *)
(* lifecycle) over the users collection of src/lib/db.ts.                  *)
(*                                                                         *)
(* A JavaScript string is a sequence of one-character strings.  A value    *)
(* kept in a document field is a record [kind, iv, data]: a blob made by   *)
(* encrypt, a raw string that is no blob (legacy plaintext, or a blob of   *)
(* another key), or an absent field.  Every handler is split where it      *)
(* awaits the database: a Read step (validation, findOne, and the          *)
(* synchronous code up to the call of the write) and a Write step          *)
(* (updateOne / insertOne and the return).  client and db are the module   *)
(* variables of src/lib/db.ts; clients holds the state of every MongoClient *)
(* object constructed so far.                                              *)
(***************************************************************************)
EXTENDS Integers, Sequences, FiniteSets, TLC

VARIABLES users, proc, uuidCounter, client, db, clients

vars == <<users, proc, uuidCounter, client, db, clients>>

(***************************** bounds **************************************)
\* randomUUID is modelled as a counter; no handler draws an id beyond MaxUuid
MaxUuid == 4
\* the initialization vectors encrypt may draw are 1..NumIVs
NumIVs == 2
\* the concurrent specifications run the handlers in processes 1..NumProcs
NumProcs == 2
\* no call constructs a MongoClient once MaxClients have been constructed
MaxClients == 3

(*************************** program constants *****************************)
MinBankNameLen == 2
MinAccountLen == 5
MaxAccountLen == 20
PinLen == 4
MaxPhoneDigits == 14
MinUsernameLen == 3
MinPasswordLen == 8

(******************************* strings ***********************************)
\* the value of an optional form field that was not supplied
Undefined == <<"undefined">>

NA == <<"N", "/", "A">>

Digits == {"0", "1", "2", "3", "4", "5", "6", "7", "8", "9"}

Whitespace == {" "}

\* String.prototype.trim
RECURSIVE TrimLeft(_)
TrimLeft(s) ==
  IF s # <<>> /\ Head(s) \in Whitespace THEN TrimLeft(Tail(s)) ELSE s

RECURSIVE TrimRight(_)
TrimRight(s) ==
  IF s # <<>> /\ s[Len(s)] \in Whitespace
    THEN TrimRight(SubSeq(s, 1, Len(s) - 1))
    ELSE s

Trim(s) == TrimRight(TrimLeft(s))

\* truthiness of a string-or-undefined form value
TruthyStr(s) == s # Undefined /\ s # <<>>

\* case folding of the 'i' flag, on the letters the model uses
LowerChar(c) ==
  CASE c = "A" -> "a"
    [] c = "B" -> "b"
    [] c = "C" -> "c"
    [] OTHER -> c

ToLower(s) == [i \in 1..Len(s) |-> LowerChar(s[i])]

(**************************** cipher module ********************************)
IVs == 1..NumIVs

\* encrypt(text) with the initialization vector the call drew
Encrypt(s, iv) == [kind |-> "blob", iv |-> iv, data |-> s]

\* a stored string that encrypt did not produce under the configured key
Raw(s) == [kind |-> "raw", iv |-> 0, data |-> s]

\* a field that is not in the document
Absent == [kind |-> "absent", iv |-> 0, data |-> <<>>]

\* decrypt(blob) returns; otherwise it throws
CanDecrypt(c) == c.kind = "blob"

Decrypt(c) == c.data

\* truthiness of a stored string-or-undefined
Truthy(c) == c.kind # "absent" /\ ~(c.kind = "raw" /\ c.data = <<>>)

\* stored === password, evaluated where decrypt has thrown
PlainEquals(c, s) == c.kind = "raw" /\ c.data = s

(************************** validation module *****************************)
AllDigits(s) == \A i \in 1..Len(s) : s[i] \in Digits

\* /^\+?[1-9]\d{1,14}$/
ValidPhone(s) ==
  LET t == IF s # <<>> /\ Head(s) = "+" THEN Tail(s) ELSE s
  IN  /\ Len(t) >= 2
      /\ Len(t) <= MaxPhoneDigits + 1
      /\ t[1] \in Digits \ {"0"}
      /\ AllDigits(t)

\* z.string().regex(/^\d{4}$/).optional().or(z.literal(''))
ValidPin(s) == s = Undefined \/ s = <<>> \/ (Len(s) = PinLen /\ AllDigits(s))

customFieldSchema(f) == Len(f.label) >= 1 /\ Len(f.value) >= 1

\* bankFormSchema.safeParse(values).success
bankFormSchema(v) ==
  /\ Len(v.bankName) >= MinBankNameLen
  /\ ValidPhone(v.phoneForOtp)
  /\ Len(v.accountNumber) >= MinAccountLen
  /\ Len(v.accountNumber) <= MaxAccountLen
  /\ Len(v.netBankingUsername) >= 1
  /\ Len(v.mobileBankingUsername) >= 1
  /\ ValidPin(v.atmPin)
  /\ v.customFields.present =>
       \A i \in 1..Len(v.customFields.items) :
         customFieldSchema(v.customFields.items[i])

\* createUserSchema.safeParse(values).success
createUserSchema(username, password) ==
  /\ Len(username) >= MinUsernameLen
  /\ Len(password) >= MinPasswordLen

\* changePasswordSchema.safeParse(values).success
changePasswordSchema(v) ==
  /\ Len(v.currentPassword) >= 1
  /\ Len(v.newPassword) >= MinPasswordLen
  /\ v.newPassword = v.confirmPassword

(*************************** results of a call *****************************)
Err(m) == [kind |-> "error", msg |-> m, data |-> <<>>]

Ok(m) == [kind |-> "success", msg |-> m, data |-> <<>>]

OkData(m, d) == [kind |-> "success", msg |-> m, data |-> d]

\* the promise of the handler rejects: the error leaves the operation
Throws(what) == [kind |-> "exception", msg |-> what, data |-> <<>>]

(************************* the users collection ****************************)
\* a document of the collection: the User type
UserDoc(id, username, masterPassword, banks) ==
  [id |-> id, username |-> username, masterPassword |-> masterPassword,
   banks |-> banks]

RECURSIVE FirstIndex(_, _, _)
\* the first index >= i of seq whose id is id, or 0
FirstIndex(seq, id, i) ==
  IF i > Len(seq) THEN 0
  ELSE IF seq[i].id = id THEN i
  ELSE FirstIndex(seq, id, i + 1)

\* usersCollection.findOne({ id: userId }): the index of the document, or 0
FindUserById(us, userId) == FirstIndex(us, userId, 1)

\* user.banks.findIndex((b) => b.id === bankId), 1-based, 0 for -1
BankIndex(banks, bankId) == FirstIndex(banks, bankId, 1)

\* mutant: the list is replaced by the new record alone
SetOnlyBank(us, userId, bank) ==
  LET i == FirstIndex(us, userId, 1)
  IN  IF i = 0 THEN us
      ELSE [us EXCEPT ![i].banks = <<bank>>]

\* mutant: the record is put first in the list
PushBankFirst(us, userId, bank) ==
  LET i == FirstIndex(us, userId, 1)
  IN  IF i = 0 THEN us
      ELSE [us EXCEPT ![i].banks = <<bank>> \o @]

\* usersCollection.updateOne({ id: userId }, { $push: { banks: bank } })
PushBank(us, userId, bank) ==
  LET i == FindUserById(us, userId)
  IN  IF i = 0 THEN us
      ELSE [us EXCEPT ![i].banks = Append(@, bank)]

\* mutant: the computed list is pushed onto the stored one
PushBanks(us, userId, banks) ==
  LET i == FirstIndex(us, userId, 1)
  IN  IF i = 0 THEN us
      ELSE [us EXCEPT ![i].banks = @ \o banks]

\* usersCollection.updateOne({ id: userId }, { $set: { banks: banks } })
SetBanks(us, userId, banks) ==
  LET i == FindUserById(us, userId)
  IN  IF i = 0 THEN us
      ELSE [us EXCEPT ![i].banks = banks]

\* usersCollection.updateOne({ id: userId }, { $set: { masterPassword: pw } })
SetMasterPassword(us, userId, pw) ==
  LET i == FindUserById(us, userId)
  IN  IF i = 0 THEN us
      ELSE [us EXCEPT ![i].masterPassword = pw]

(***************************** bank records ********************************)
OptionalSecrets == {"netBankingPassword", "mobileBankingPassword", "atmPin"}

\* mutant: an optional secret is stored as it was submitted
StoreIfGiven(s, iv) == IF TruthyStr(s) THEN Raw(s) ELSE Absent

\* data.f ? encrypt(data.f) : undefined
EncryptIfGiven(s, iv) == IF TruthyStr(s) THEN Encrypt(s, iv) ELSE Absent

\* data.customFields?.map(field => ({label: encrypt(..), value: encrypt(..)}))
EncryptCustomFields(cf, iv) ==
  [present |-> cf.present,
   items |-> [i \in 1..Len(cf.items) |->
                [label |-> Encrypt(cf.items[i].label, iv),
                 value |-> Encrypt(cf.items[i].value, iv)]]]

\* the newBank object of addBank
NewBank(data, id, iv) ==
  [id |-> id,
   bankName |-> Encrypt(data.bankName, iv),
   phoneForOtp |-> Encrypt(data.phoneForOtp, iv),
   accountNumber |-> Encrypt(data.accountNumber, iv),
   netBankingUsername |-> Encrypt(data.netBankingUsername, iv),
   netBankingPassword |-> EncryptIfGiven(data.netBankingPassword, iv),
   mobileBankingUsername |-> Encrypt(data.mobileBankingUsername, iv),
   mobileBankingPassword |-> EncryptIfGiven(data.mobileBankingPassword, iv),
   atmPin |-> EncryptIfGiven(data.atmPin, iv),
   customFields |-> EncryptCustomFields(data.customFields, iv)]

\* data.f && data.f.trim() !== ''
GivenAfterTrim(s) == TruthyStr(s) /\ Trim(s) # <<>>

\* mutant: the test of the trimmed value is left out
OverwriteIfTruthy(old, s, iv) == IF TruthyStr(s) THEN Encrypt(s, iv) ELSE old

\* mutant: a secret is written only where none is stored
OverwriteIfAbsent(old, s, iv) ==
  IF GivenAfterTrim(s) /\ ~Truthy(old) THEN Encrypt(s, iv) ELSE old

\* updatedBank.f = encrypt(data.f) only if a new value is provided
OverwriteIfGiven(old, s, iv) == IF GivenAfterTrim(s) THEN Encrypt(s, iv) ELSE old

\* mutant: the record is built from the form alone, without ...existingBank
UpdatedBankFromForm(existingBank, data, iv) ==
  NewBank(data, existingBank.id, iv)

\* the updatedBank object of updateBank
UpdatedBank(existingBank, data, iv) ==
  [existingBank EXCEPT
     !.bankName = Encrypt(data.bankName, iv),
     !.phoneForOtp = Encrypt(data.phoneForOtp, iv),
     !.accountNumber = Encrypt(data.accountNumber, iv),
     !.netBankingUsername = Encrypt(data.netBankingUsername, iv),
     !.mobileBankingUsername = Encrypt(data.mobileBankingUsername, iv),
     !.netBankingPassword = OverwriteIfGiven(@, data.netBankingPassword, iv),
     !.mobileBankingPassword = OverwriteIfGiven(@, data.mobileBankingPassword, iv),
     !.atmPin = OverwriteIfGiven(@, data.atmPin, iv),
     !.customFields = IF data.customFields.present
                        THEN EncryptCustomFields(data.customFields, iv)
                        ELSE @]

\* mutant: the filter keeps the record it should drop
RemoveBankInverted(banks, bankId) == SelectSeq(banks, LAMBDA b : b.id = bankId)

\* user.banks.filter((b) => b.id !== bankId)
RemoveBank(banks, bankId) == SelectSeq(banks, LAMBDA b : b.id # bankId)

(************************** processes and calls ****************************)
Procs == 1..NumProcs

\* a process that has made no call yet
Idle == [pc |-> "idle"]

\* process p may begin a call: it is not inside one
CanStart(p) == proc[p].pc \in {"idle", "done"}

\* the handler returns result without having written
Return(p, op, args, result) ==
  /\ proc' = [proc EXCEPT ![p] =
                [pc |-> "done", op |-> op, args |-> args, result |-> result]]
  /\ UNCHANGED <<users, uuidCounter, client, db, clients>>

\* the handler has issued its write and awaits it
Await(p, op, args, payload) ==
  /\ proc' = [proc EXCEPT ![p] =
                [pc |-> "write", op |-> op, args |-> args, payload |-> payload]]
  /\ UNCHANGED <<users, client, db, clients>>

\* the write is applied and the handler returns result
Complete(p, result) ==
  /\ proc' = [proc EXCEPT ![p] =
                [pc |-> "done", op |-> proc[p].op, args |-> proc[p].args,
                 result |-> result]]
  /\ UNCHANGED <<uuidCounter, client, db, clients>>

Writing(p, op) == proc[p].pc = "write" /\ proc[p].op = op

\* process p has returned from a call of op
Returned(p, op) == proc[p].pc = "done" /\ proc[p].op = op

(************************ the database connection **************************)
\* db === null
NoDb == [client |-> 0]

\* client.db(MONGODB_DB_NAME), for the MongoClient object c
DbOf(c) == [client |-> c]

\* the connection is established: connectToDatabase returns the cached handle
Connected ==
  /\ client = 1
  /\ db = DbOf(1)
  /\ clients = <<"connected">>

\* the MongoClient objects that are connected
ConnectedClients == {c \in 1..Len(clients) : clients[c] = "connected"}

\* connectToDatabase up to its return of the cached handle, or up to
\* await client.connect() on the MongoClient it has constructed (MONGODB_URI
\* is set)
ConnectToDatabaseCall(p) ==
  /\ CanStart(p)
  /\ IF db # NoDb /\ client # 0
       THEN /\ proc' = [proc EXCEPT ![p] =
                         [pc |-> "done", op |-> "connectToDatabase",
                          args |-> <<>>,
                          result |-> [kind |-> "db", msg |-> "", data |-> db]]]
            /\ UNCHANGED <<client, db, clients>>
       ELSE /\ Len(clients) < MaxClients
            /\ clients' = Append(clients, "connecting")
            /\ client' = Len(clients) + 1
            /\ proc' = [proc EXCEPT ![p] =
                         [pc |-> "connect", op |-> "connectToDatabase",
                          args |-> <<>>, payload |-> Len(clients) + 1]]
            /\ UNCHANGED db
  /\ UNCHANGED <<users, uuidCounter>>

\* connectToDatabase after client.connect() has resolved: db = client.db(..)
\* reads the module variable client, which is null after a close (TypeError)
ConnectToDatabaseResume(p) ==
  /\ proc[p].pc = "connect"
  /\ clients' = IF clients[proc[p].payload] = "connecting"
                  THEN [clients EXCEPT ![proc[p].payload] = "connected"]
                  ELSE clients
  /\ IF client = 0
       THEN /\ proc' = [proc EXCEPT ![p] =
                         [pc |-> "done", op |-> "connectToDatabase",
                          args |-> <<>>, result |-> Throws("TypeError")]]
            /\ UNCHANGED db
       ELSE /\ db' = DbOf(client)
            /\ proc' = [proc EXCEPT ![p] =
                         [pc |-> "done", op |-> "connectToDatabase",
                          args |-> <<>>,
                          result |-> [kind |-> "db", msg |-> "",
                                      data |-> DbOf(client)]]]
  /\ UNCHANGED <<users, uuidCounter, client>>

\* connectToDatabase after client.connect() has rejected: the catch rethrows
ConnectToDatabaseReject(p) ==
  /\ proc[p].pc = "connect"
  /\ clients' = IF clients[proc[p].payload] = "connecting"
                  THEN [clients EXCEPT ![proc[p].payload] = "failed"]
                  ELSE clients
  /\ proc' = [proc EXCEPT ![p] =
                [pc |-> "done", op |-> "connectToDatabase",
                 args |-> <<>>, result |-> Throws("MongoError")]]
  /\ UNCHANGED <<users, uuidCounter, client, db>>

\* closeDatabaseConnection up to await client.close(), or its return when
\* there is no client
CloseDatabaseConnectionCall(p) ==
  /\ CanStart(p)
  /\ IF client = 0
       THEN /\ proc' = [proc EXCEPT ![p] =
                         [pc |-> "done", op |-> "closeDatabaseConnection",
                          args |-> <<>>,
                          result |-> [kind |-> "void", msg |-> "",
                                      data |-> <<>>]]]
            /\ UNCHANGED clients
       ELSE /\ clients' = [clients EXCEPT ![client] = "closed"]
            /\ proc' = [proc EXCEPT ![p] =
                         [pc |-> "close", op |-> "closeDatabaseConnection",
                          args |-> <<>>, payload |-> client]]
  /\ UNCHANGED <<users, uuidCounter, client, db>>

\* closeDatabaseConnection after client.close(): client = null; db = null
CloseDatabaseConnectionResume(p) ==
  /\ proc[p].pc = "close"
  /\ client' = 0
  /\ db' = NoDb
  /\ proc' = [proc EXCEPT ![p] =
                [pc |-> "done", op |-> "closeDatabaseConnection",
                 args |-> <<>>,
                 result |-> [kind |-> "void", msg |-> "", data |-> <<>>]]]
  /\ UNCHANGED <<users, uuidCounter, clients>>

(****************************** bank CRUD **********************************)
\* user.banks.map(({id, bankName, accountNumber}) => ({id, decrypt, decrypt}))
BankListItems(banks) ==
  [i \in 1..Len(banks) |->
     [id |-> banks[i].id,
      bankName |-> Decrypt(banks[i].bankName),
      accountNumber |-> Decrypt(banks[i].accountNumber)]]

\* what getBanksForUser(userId) returns on the collection us
GetBanksForUserResult(us, userId) ==
  LET i == FindUserById(us, userId)
  IN  IF i = 0 THEN [kind |-> "list", msg |-> "", data |-> <<>>]
      ELSE IF \E k \in 1..Len(us[i].banks) :
                \/ ~CanDecrypt(us[i].banks[k].bankName)
                \/ ~CanDecrypt(us[i].banks[k].accountNumber)
        THEN Throws("DecryptionError")
      ELSE [kind |-> "list", msg |-> "", data |-> BankListItems(us[i].banks)]

GetBanksForUser(p, userId) ==
  /\ CanStart(p)
  /\ Return(p, "getBanksForUser", [userId |-> userId],
            GetBanksForUserResult(users, userId))

\* mutant: a field that is not stored is revealed as the empty string
DecryptOrEmpty(c) == IF Truthy(c) THEN Decrypt(c) ELSE <<>>

\* bank.f ? decrypt(bank.f) : 'N/A'
DecryptOrNA(c) == IF Truthy(c) THEN Decrypt(c) ELSE NA

\* the stored values decryptBank hands to decrypt
DecryptedByReveal(bank) ==
  {bank.bankName, bank.phoneForOtp, bank.accountNumber,
   bank.netBankingUsername, bank.mobileBankingUsername}
  \cup {bank[f] : f \in {g \in OptionalSecrets : Truthy(bank[g])}}
  \cup {bank.customFields.items[i].label :
          i \in 1..Len(bank.customFields.items)}
  \cup {bank.customFields.items[i].value :
          i \in {j \in 1..Len(bank.customFields.items) :
                   Truthy(bank.customFields.items[j].value)}}

\* the decryptedBank object of decryptBank
DecryptedBank(bank) ==
  [id |-> bank.id,
   bankName |-> Decrypt(bank.bankName),
   phoneForOtp |-> Decrypt(bank.phoneForOtp),
   accountNumber |-> Decrypt(bank.accountNumber),
   netBankingUsername |-> Decrypt(bank.netBankingUsername),
   netBankingPassword |-> DecryptOrNA(bank.netBankingPassword),
   mobileBankingUsername |-> Decrypt(bank.mobileBankingUsername),
   mobileBankingPassword |-> DecryptOrNA(bank.mobileBankingPassword),
   atmPin |-> DecryptOrNA(bank.atmPin),
   customFields |->
     [present |-> bank.customFields.present,
      items |-> [i \in 1..Len(bank.customFields.items) |->
                   [label |-> Decrypt(bank.customFields.items[i].label),
                    value |-> DecryptOrNA(bank.customFields.items[i].value)]]]]

\* what decryptBank(userId, bankId) returns on the collection us
DecryptBankResult(us, userId, bankId) ==
  LET i == FindUserById(us, userId)
  IN  IF i = 0 THEN Err("User not found.")
      ELSE LET k == BankIndex(us[i].banks, bankId)
           IN  IF k = 0 THEN Err("Bank not found.")
               ELSE IF \E c \in DecryptedByReveal(us[i].banks[k]) :
                         ~CanDecrypt(c)
                 THEN Throws("DecryptionError")
               ELSE OkData("Bank decrypted.", DecryptedBank(us[i].banks[k]))

DecryptBank(p, userId, bankId) ==
  /\ CanStart(p)
  /\ Return(p, "decryptBank", [userId |-> userId, bankId |-> bankId],
            DecryptBankResult(users, userId, bankId))

\* addBank up to the call of updateOne
AddBankRead(p, userId, values) ==
  LET args == [userId |-> userId, values |-> values]
  IN  /\ CanStart(p)
      /\ IF ~bankFormSchema(values)
           THEN Return(p, "addBank", args, Err("Invalid data provided."))
         ELSE IF FindUserById(users, userId) = 0
           THEN Return(p, "addBank", args, Err("User not found."))
         ELSE /\ uuidCounter < MaxUuid
              /\ uuidCounter' = uuidCounter + 1
              /\ \E iv \in IVs :
                   Await(p, "addBank", args,
                         NewBank(values, uuidCounter + 1, iv))

\* addBank from the $push to its return
AddBankWrite(p) ==
  /\ Writing(p, "addBank")
  /\ users' = PushBank(users, proc[p].args.userId, proc[p].payload)
  /\ Complete(p, Ok("Bank added successfully."))

\* updateBank up to the call of updateOne
UpdateBankRead(p, userId, bankId, values) ==
  LET args == [userId |-> userId, bankId |-> bankId, values |-> values]
      i == FindUserById(users, userId)
  IN  /\ CanStart(p)
      /\ IF ~bankFormSchema(values)
           THEN Return(p, "updateBank", args, Err("Invalid data provided."))
         ELSE IF i = 0
           THEN Return(p, "updateBank", args, Err("User not found."))
         ELSE LET bankIndex == BankIndex(users[i].banks, bankId)
              IN  IF bankIndex = 0
                    THEN Return(p, "updateBank", args, Err("Bank not found."))
                  ELSE /\ \E iv \in IVs :
                            Await(p, "updateBank", args,
                                  [users[i].banks EXCEPT ![bankIndex] =
                                     UpdatedBank(@, values, iv)])
                       /\ UNCHANGED uuidCounter

\* updateBank from the $set to its return
UpdateBankWrite(p) ==
  /\ Writing(p, "updateBank")
  /\ users' = SetBanks(users, proc[p].args.userId, proc[p].payload)
  /\ Complete(p, Ok("Bank updated successfully."))

\* deleteBank up to the call of updateOne
DeleteBankRead(p, userId, bankId) ==
  LET args == [userId |-> userId, bankId |-> bankId]
      i == FindUserById(users, userId)
  IN  /\ CanStart(p)
      /\ IF i = 0
           THEN Return(p, "deleteBank", args, Err("User not found."))
         ELSE LET updatedBanks == RemoveBank(users[i].banks, bankId)
              IN  IF Len(updatedBanks) = Len(users[i].banks)
                    THEN Return(p, "deleteBank", args, Err("Bank not found."))
                  ELSE /\ Await(p, "deleteBank", args, updatedBanks)
                       /\ UNCHANGED uuidCounter

\* deleteBank from the $set to its return
DeleteBankWrite(p) ==
  /\ Writing(p, "deleteBank")
  /\ users' = SetBanks(users, proc[p].args.userId, proc[p].payload)
  /\ Complete(p, Ok("Bank deleted successfully."))

(************************ user lifecycle ***********************************)
\* an atom of a pattern matches the character c under the 'i' flag
AtomMatches(a, c) == a = "." \/ LowerChar(a) = LowerChar(c)

\* new RegExp(`^${username}$`, 'i') compiles: no quantifier without an atom
RegExpCompiles(pat) ==
  \A i \in 1..Len(pat) : pat[i] = "+" => (i > 1 /\ pat[i - 1] # "+")

RECURSIVE RegExpMatches(_, _)
\* the pattern, anchored at both ends, matches the whole of s; the pattern is
\* the username as given: "." is any character, "+" repeats the atom before
RegExpMatches(pat, s) ==
  IF pat = <<>> THEN s = <<>>
  ELSE IF Len(pat) >= 2 /\ pat[2] = "+"
    THEN \E n \in 1..Len(s) :
           /\ \A j \in 1..n : AtomMatches(pat[1], s[j])
           /\ RegExpMatches(SubSeq(pat, 3, Len(pat)), SubSeq(s, n + 1, Len(s)))
  ELSE /\ s # <<>>
       /\ AtomMatches(pat[1], s[1])
       /\ RegExpMatches(Tail(pat), Tail(s))

RECURSIVE FirstMatch(_, _, _)
FirstMatch(us, pat, i) ==
  IF i > Len(us) THEN 0
  ELSE IF RegExpMatches(pat, us[i].username) THEN i
  ELSE FirstMatch(us, pat, i + 1)

\* usersCollection.findOne({ username: { $regex: /^username$/i } }):
\* the index of the first matching document, or 0
FindUserByName(us, username) == FirstMatch(us, username, 1)

\* mutant: the document is returned as it is stored
UserAsStored(user) == user

\* const { masterPassword, ...userToReturn } = toPlainObject(user)
UserToReturn(user) ==
  [id |-> user.id, username |-> user.username, banks |-> user.banks]

\* the stored master password is the supplied one: by decryption, or as
\* plaintext where decrypt throws
PasswordMatches(stored, password) ==
  /\ Truthy(stored)
  /\ IF CanDecrypt(stored) THEN Decrypt(stored) = password
                           ELSE PlainEquals(stored, password)

\* what verifyMasterPassword(username, password) returns on the collection us
VerifyMasterPasswordResult(us, username, password) ==
  IF username = <<>> \/ password = <<>>
    THEN Err("Username and password are required.")
  ELSE IF ~RegExpCompiles(username) THEN Throws("SyntaxError")
  ELSE LET i == FindUserByName(us, username)
       IN  IF i # 0 /\ PasswordMatches(us[i].masterPassword, password)
             THEN OkData("Login successful.", UserToReturn(us[i]))
             ELSE Err("Invalid username or password.")

VerifyMasterPassword(p, username, password) ==
  /\ CanStart(p)
  /\ Return(p, "verifyMasterPassword",
            [username |-> username, password |-> password],
            VerifyMasterPasswordResult(users, username, password))

\* createUser up to the call of insertOne
CreateUserRead(p, username, password) ==
  LET args == [username |-> username, password |-> password]
  IN  /\ CanStart(p)
      /\ IF ~createUserSchema(username, password)
           THEN Return(p, "createUser", args,
                       Err("Invalid data provided. Username must be at least 3 characters and password at least 8."))
         ELSE IF ~RegExpCompiles(username)
           THEN Return(p, "createUser", args, Throws("SyntaxError"))
         ELSE IF FindUserByName(users, username) # 0
           THEN Return(p, "createUser", args, Err("Username already taken."))
         ELSE /\ uuidCounter < MaxUuid
              /\ uuidCounter' = uuidCounter + 1
              /\ \E iv \in IVs :
                   Await(p, "createUser", args,
                         UserDoc(uuidCounter + 1, username,
                                 Encrypt(password, iv), <<>>))

\* createUser from insertOne to its return
CreateUserWrite(p) ==
  /\ Writing(p, "createUser")
  /\ users' = Append(users, proc[p].payload)
  /\ Complete(p, OkData("User created successfully! You can now log in.",
                        UserToReturn(proc[p].payload)))

\* the message of the first issue of changePasswordSchema
ChangePasswordIssue(v) ==
  IF Len(v.currentPassword) < 1
    THEN "currentPassword: Current password is required"
  ELSE IF Len(v.newPassword) < MinPasswordLen
    THEN "newPassword: New password must be at least 8 characters"
  ELSE "confirmPassword: New passwords don't match"

\* changeMasterPassword up to the call of updateOne
ChangeMasterPasswordRead(p, userId, values) ==
  LET args == [userId |-> userId, values |-> values]
      i == FindUserById(users, userId)
  IN  /\ CanStart(p)
      /\ IF ~changePasswordSchema(values)
           THEN Return(p, "changeMasterPassword", args,
                       Err(ChangePasswordIssue(values)))
         ELSE IF i = 0
           THEN Return(p, "changeMasterPassword", args, Err("User not found."))
         ELSE IF ~PasswordMatches(users[i].masterPassword,
                                  values.currentPassword)
           THEN Return(p, "changeMasterPassword", args,
                       Err("Incorrect current password."))
         ELSE /\ \E iv \in IVs :
                   Await(p, "changeMasterPassword", args,
                         Encrypt(values.newPassword, iv))
              /\ UNCHANGED uuidCounter

\* changeMasterPassword from the $set to its return
ChangeMasterPasswordWrite(p) ==
  /\ Writing(p, "changeMasterPassword")
  /\ users' = SetMasterPassword(users, proc[p].args.userId, proc[p].payload)
  /\ Complete(p, Ok("Master password updated successfully."))

(******************************* inputs ************************************)
NoCustomFields == [present |-> FALSE, items |-> <<>>]

\* every optional field supplied
FormFull ==
  [bankName |-> <<"H", "D">>,
   phoneForOtp |-> <<"+", "9", "1">>,
   accountNumber |-> <<"1", "2", "3", "4", "5">>,
   netBankingUsername |-> <<"u">>,
   netBankingPassword |-> <<"p", "w">>,
   mobileBankingUsername |-> <<"m">>,
   mobileBankingPassword |-> <<"m", "p">>,
   atmPin |-> <<"1", "2", "3", "4">>,
   customFields |->
     [present |-> TRUE, items |-> <<[label |-> <<"k">>, value |-> <<"v">>]>>]]

\* no optional field supplied: missing, empty, or blanks only
FormBare ==
  [bankName |-> <<"S", "B", "I">>,
   phoneForOtp |-> <<"9", "1">>,
   accountNumber |-> <<"5", "4", "3", "2", "1">>,
   netBankingUsername |-> <<"u">>,
   netBankingPassword |-> <<" ", " ">>,
   mobileBankingUsername |-> <<"m">>,
   mobileBankingPassword |-> Undefined,
   atmPin |-> <<>>,
   customFields |-> NoCustomFields]

\* only the PIN supplied, and another PIN than FormFull's
FormNewPin == [FormBare EXCEPT !.atmPin = <<"9", "8", "7", "6">>]

\* rejected by the schema: the PIN has two digits
FormBadPin == [FormFull EXCEPT !.atmPin = <<"1", "2">>]

BankForms == {FormFull, FormBare, FormNewPin, FormBadPin}

PwSecret1 == <<"p", "a", "s", "s", "w", "o", "r", "d">>

PwSecret2 == <<"l", "e", "t", "m", "e", "i", "n", "1">>

NameAbc == <<"a", "b", "c">>

NameBob == <<"b", "o", "b">>

\* user ids a caller may pass: 0 is the id of no document
UserIdInputs == 0..2

\* bank ids a caller may pass: 0 is the id of no record
BankIdInputs == {0} \cup (3..MaxUuid)

(************** Spec: bank CRUD, one call at a time ************************)
\* two registered users; the second already holds one bank record
BankStore ==
  <<UserDoc(1, NameAbc, Encrypt(PwSecret1, 1), <<>>),
    UserDoc(2, NameBob, Encrypt(PwSecret2, 1), <<NewBank(FormFull, 3, 1)>>)>>

Init ==
  /\ users = BankStore
  /\ proc = [p \in Procs |-> Idle]
  /\ uuidCounter = 3
  /\ Connected

Next ==
  \/ \E userId \in UserIdInputs : GetBanksForUser(1, userId)
  \/ \E userId \in UserIdInputs, bankId \in BankIdInputs :
       DecryptBank(1, userId, bankId)
  \/ \E userId \in UserIdInputs, values \in BankForms :
       AddBankRead(1, userId, values)
  \/ AddBankWrite(1)
  \/ \E userId \in UserIdInputs, bankId \in BankIdInputs,
        values \in BankForms :
       UpdateBankRead(1, userId, bankId, values)
  \/ UpdateBankWrite(1)
  \/ \E userId \in UserIdInputs, bankId \in BankIdInputs :
       DeleteBankRead(1, userId, bankId)
  \/ DeleteBankWrite(1)

Spec == Init /\ [][Next]_vars

(************ SpecUser: the user lifecycle, one call at a time *************)
\* NameAbc in another case
NameAbcUpper == <<"A", "B", "c">>

\* "." in a pattern matches any character
NameDot == <<"a", ".", "c">>

\* "+" in a pattern repeats the character before it
NamePlus == <<"a", "+", "b">>

\* a pattern that does not compile: nothing to repeat
NamePlusFirst == <<"+", "a", "b">>

\* shorter than the schema allows
NameShort == <<"a", "b">>

Usernames ==
  {NameAbc, NameAbcUpper, NameDot, NamePlus, NamePlusFirst, NameShort,
   NameBob}

\* a master password stored before encryption existed; too short for a new one
PwOld == <<"o", "l", "d">>

Passwords == {PwSecret1, PwSecret2, PwOld}

ChangeForm(current, new, confirm) ==
  [currentPassword |-> current, newPassword |-> new,
   confirmPassword |-> confirm]

ChangeForms ==
  {ChangeForm(PwSecret1, PwSecret2, PwSecret2),
   ChangeForm(PwSecret2, PwSecret1, PwSecret1),
   ChangeForm(PwOld, PwSecret1, PwSecret1),
   ChangeForm(PwSecret1, PwSecret1, PwSecret1),
   ChangeForm(PwSecret1, PwSecret2, PwSecret1),
   ChangeForm(PwSecret1, PwOld, PwOld),
   ChangeForm(<<>>, PwSecret2, PwSecret2)}

\* a legacy account with a plaintext master password, and a registered one
UserStore ==
  <<UserDoc(1, NameBob, Raw(PwOld), <<>>),
    UserDoc(2, NameAbc, Encrypt(PwSecret1, 1), <<>>)>>

InitUser ==
  /\ users = UserStore
  /\ proc = [p \in Procs |-> Idle]
  /\ uuidCounter = 2
  /\ Connected

NextUser ==
  \/ \E username \in Usernames \cup {<<>>}, password \in Passwords \cup {<<>>} :
       VerifyMasterPassword(1, username, password)
  \/ \E username \in Usernames, password \in {PwSecret1, PwOld} :
       CreateUserRead(1, username, password)
  \/ CreateUserWrite(1)
  \/ \E userId \in 0..MaxUuid, values \in ChangeForms :
       ChangeMasterPasswordRead(1, userId, values)
  \/ ChangeMasterPasswordWrite(1)

SpecUser == InitUser /\ [][NextUser]_vars

(********************* claims on bank CRUD (Spec) **************************)
\* the bank record with id bankId of user userId in the collection us
StoredBank(us, userId, bankId) ==
  LET i == FindUserById(us, userId)
  IN  us[i].banks[BankIndex(us[i].banks, bankId)]

\* a form value that is missing, or empty after trimming
Omitted(s) == s = Undefined \/ Trim(s) = <<>>

\* process 1 completes the write of a call of op in this step
Completes(op) == Writing(1, op) /\ proc'[1].pc = "done"

\* C1: a successful updateBank leaves the stored ciphertext of each of
\* netBankingPassword, mobileBankingPassword and atmPin exactly as it was
\* stored before the update when the incoming value is missing or empty
\* after trimming.
C1_OmissionKeepsSecret ==
  [][Completes("updateBank") =>
       LET a == proc[1].args
       IN  \A f \in OptionalSecrets :
             Omitted(a.values[f]) =>
               StoredBank(users', a.userId, a.bankId)[f]
                 = StoredBank(users, a.userId, a.bankId)[f]]_vars

\* C1 witness: updateBank with an empty atmPin and a password of blanks has
\* returned on a record that holds both secrets, and they are still there.
C1_Witness ==
  /\ Returned(1, "updateBank")
  /\ proc[1].result.kind = "success"
  /\ proc[1].args.values.atmPin = <<>>
  /\ proc[1].args.values.netBankingPassword = <<" ", " ">>
  /\ LET b == StoredBank(users, proc[1].args.userId, proc[1].args.bankId)
     IN  /\ b.atmPin.kind = "blob"
         /\ b.atmPin.data = <<"1", "2", "3", "4">>
         /\ b.netBankingPassword.data = <<"p", "w">>

\* C2: right after a successful updateBank with a non-empty atmPin P,
\* decryptBank of that record returns atmPin = P.
C2_NewPinRevealed ==
  (/\ Returned(1, "updateBank")
   /\ proc[1].result.kind = "success"
   /\ TruthyStr(proc[1].args.values.atmPin))
  => LET r == DecryptBankResult(users, proc[1].args.userId,
                                proc[1].args.bankId)
     IN  /\ r.kind = "success"
         /\ r.data.atmPin = proc[1].args.values.atmPin

\* C2 witness: updateBank with PIN 9876 has returned on a record that was
\* written by FormFull (PIN 1234: it still holds FormFull's password), and
\* the record reveals 9876.
C2_Witness ==
  /\ Returned(1, "updateBank")
  /\ proc[1].result.kind = "success"
  /\ proc[1].args.values.atmPin = <<"9", "8", "7", "6">>
  /\ LET b == StoredBank(users, proc[1].args.userId, proc[1].args.bankId)
     IN  /\ b.netBankingPassword.data = <<"p", "w">>
         /\ Decrypt(b.atmPin) = <<"9", "8", "7", "6">>

\* C3: deleteBank(userId, bankId), for an existing user whose bank list has
\* no record with id bankId, returns the error 'Bank not found.' and writes
\* nothing: the collection is the same before and after the call.
C3_DeleteMissingBank ==
  [][(CanStart(1) /\ proc'[1].pc # "idle" /\ proc'[1].op = "deleteBank") =>
       LET a == proc'[1].args
           i == FindUserById(users, a.userId)
       IN  (i # 0 /\ BankIndex(users[i].banks, a.bankId) = 0) =>
             /\ proc'[1].pc = "done"
             /\ proc'[1].result = Err("Bank not found.")
             /\ users' = users]_vars

\* C3 witness: deleteBank has returned 'Bank not found.' for a user who
\* holds two bank records.
C3_Witness ==
  /\ Returned(1, "deleteBank")
  /\ proc[1].result = Err("Bank not found.")
  /\ Len(users[FindUserById(users, proc[1].args.userId)].banks) = 2

\* C8: when a successful addBank completes, getBanksForUser lists what it
\* listed before, unchanged and in the same order, followed by exactly one
\* new entry whose bankName and accountNumber are the submitted values.
C8_AddThenList ==
  [][Completes("addBank") =>
       LET a == proc[1].args
           before == GetBanksForUserResult(users, a.userId)
           after == GetBanksForUserResult(users', a.userId)
           n == Len(before.data)
       IN  /\ before.kind = "list"
           /\ after.kind = "list"
           /\ Len(after.data) = n + 1
           /\ SubSeq(after.data, 1, n) = before.data
           /\ after.data[n + 1].bankName = a.values.bankName
           /\ after.data[n + 1].accountNumber = a.values.accountNumber
           /\ \A k \in 1..n : before.data[k].id # after.data[n + 1].id]_vars

\* C8 witness: addBank has returned success for a user who now lists two
\* banks, the second with the submitted name.
C8_Witness ==
  /\ Returned(1, "addBank")
  /\ proc[1].result.kind = "success"
  /\ LET r == GetBanksForUserResult(users, proc[1].args.userId)
     IN  /\ Len(r.data) = 2
         /\ r.data[2].bankName = proc[1].args.values.bankName

(****************** claims on the user lifecycle (SpecUser) ****************)
\* two usernames are equal ignoring letter case
SameName(u, v) == ToLower(u) = ToLower(v)

\* process 1 begins a call of op in this step
Begins(op) == CanStart(1) /\ proc'[1].pc # "idle" /\ proc'[1].op = op

\* some stored user has this username, ignoring case, and this master
\* password (by decryption, or as plaintext where decryption fails)
HasCredentials(us, username, password) ==
  \E i \in 1..Len(us) :
    /\ SameName(us[i].username, username)
    /\ PasswordMatches(us[i].masterPassword, password)

\* C4: a createUser call with a valid username that equals a stored one
\* ignoring letter case returns 'Username already taken.' and inserts no
\* document.
C4_CaseVariantTaken ==
  [][Begins("createUser") =>
       LET a == proc'[1].args
       IN  (/\ createUserSchema(a.username, a.password)
            /\ \E i \in 1..Len(users) : SameName(users[i].username, a.username))
           => /\ proc'[1].pc = "done"
              /\ proc'[1].result.kind = "error"
              /\ proc'[1].result.msg = "Username already taken."
              /\ users' = users]_vars

\* C6: verifyMasterPassword returns success only if some stored user has the
\* supplied username, ignoring case, and the supplied master password.
C6_LoginOnlyWithCredentials ==
  (Returned(1, "verifyMasterPassword") /\ proc[1].result.kind = "success")
  => HasCredentials(users, proc[1].args.username, proc[1].args.password)

\* C7: for a non-empty username and a non-empty password that is not the
\* password of a user of that name, verifyMasterPassword returns the error
\* 'Invalid username or password.', whether or not the username exists.
C7_SameErrorForWrongPassword ==
  (/\ Returned(1, "verifyMasterPassword")
   /\ proc[1].args.username # <<>>
   /\ proc[1].args.password # <<>>
   /\ ~HasCredentials(users, proc[1].args.username, proc[1].args.password))
  => /\ proc[1].result.kind = "error"
     /\ proc[1].result.msg = "Invalid username or password."

\* C9: changeMasterPassword goes on to write exactly when the input is
\* valid, the user exists and current matches the stored password; its write
\* stores an encryption of new, after which verifyMasterPassword for that
\* user succeeds with new and fails with the old password when they differ;
\* a call that returns an error leaves the collection unchanged.
C9_ChangeMasterPassword ==
  [][/\ Begins("changeMasterPassword") =>
          LET a == proc'[1].args
              i == FindUserById(users, a.userId)
          IN  /\ users' = users
              /\ proc'[1].pc = "write"
                   <=> /\ changePasswordSchema(a.values)
                       /\ i # 0
                       /\ PasswordMatches(users[i].masterPassword,
                                          a.values.currentPassword)
              /\ proc'[1].pc = "done" => proc'[1].result.kind = "error"
     /\ Completes("changeMasterPassword") =>
          LET a == proc[1].args
              i == FindUserById(users, a.userId)
              name == users[i].username
              old == a.values.currentPassword
              new == a.values.newPassword
          IN  /\ proc'[1].result.kind = "success"
              /\ users'[i].masterPassword.kind = "blob"
              /\ Decrypt(users'[i].masterPassword) = new
              /\ VerifyMasterPasswordResult(users', name, new).kind = "success"
              /\ old # new =>
                   VerifyMasterPasswordResult(users', name, old).kind
                     # "success"]_vars

(************ SpecCreate: createUser calls that run concurrently ***********)
InitCreate ==
  /\ users = <<>>
  /\ proc = [p \in Procs |-> Idle]
  /\ uuidCounter = 0
  /\ Connected

NextCreate ==
  \E p \in Procs :
    \/ \E username \in {NameAbc, NameAbcUpper, NameShort},
          password \in {PwSecret1, PwOld} :
         CreateUserRead(p, username, password)
    \/ CreateUserWrite(p)

SpecCreate == InitCreate /\ [][NextCreate]_vars

\* C5: no two stored user documents have usernames that are equal ignoring
\* case, and no two have the same id.
C5_UniqueUsers ==
  \A i, j \in 1..Len(users) :
    i # j => /\ ~SameName(users[i].username, users[j].username)
             /\ users[i].id # users[j].id

(***** SpecLegacy: every operation, on a store with undecryptable values ****)
\* a user from before encryption: the master password and the name of the
\* first bank are plaintext, the PIN of the second is no blob of this key
LegacyStore ==
  <<UserDoc(1, NameBob, Raw(PwOld),
            <<[NewBank(FormFull, 2, 1) EXCEPT
                 !.bankName = Raw(FormFull.bankName)],
              [NewBank(FormBare, 3, 1) EXCEPT
                 !.atmPin = Raw(FormFull.atmPin)]>>)>>

InitLegacy ==
  /\ users = LegacyStore
  /\ proc = [p \in Procs |-> Idle]
  /\ uuidCounter = 3
  /\ Connected

NextLegacy ==
  \/ \E userId \in 0..1 : GetBanksForUser(1, userId)
  \/ \E userId \in 0..1, bankId \in BankIdInputs \cup {2} :
       DecryptBank(1, userId, bankId)
  \/ \E userId \in 0..1, values \in {FormNewPin, FormBadPin} :
       AddBankRead(1, userId, values)
  \/ AddBankWrite(1)
  \/ \E userId \in 0..1, bankId \in BankIdInputs \cup {2},
        values \in {FormNewPin, FormBadPin} :
       UpdateBankRead(1, userId, bankId, values)
  \/ UpdateBankWrite(1)
  \/ \E userId \in 0..1, bankId \in BankIdInputs \cup {2} :
       DeleteBankRead(1, userId, bankId)
  \/ DeleteBankWrite(1)
  \/ \E username \in {NameBob, NameAbc, <<>>}, password \in {PwOld, PwSecret1} :
       VerifyMasterPassword(1, username, password)
  \/ \E username \in {NameBob, NameAbc, NameShort} :
       CreateUserRead(1, username, PwSecret1)
  \/ CreateUserWrite(1)
  \/ \E userId \in 0..1,
        values \in {ChangeForm(PwOld, PwSecret1, PwSecret1),
                    ChangeForm(PwSecret1, PwOld, PwOld)} :
       ChangeMasterPasswordRead(1, userId, values)
  \/ ChangeMasterPasswordWrite(1)

SpecLegacy == InitLegacy /\ [][NextLegacy]_vars

\* C10: every operation returns a structured result, whatever is stored: no
\* call ends with an error, such as a failed decryption, leaving the operation.
C10_NoErrorEscapes ==
  \A p \in Procs : proc[p].pc = "done" => proc[p].result.kind # "exception"

(******* SpecWrites: every writing operation, on a store of ciphertext *****)
\* a username no stored user has
NameCab == <<"c", "a", "b">>

\* two custom fields, neither with the label the stored record has
FormTwoFields ==
  [FormBare EXCEPT
     !.customFields =
       [present |-> TRUE,
        items |-> <<[label |-> <<"a">>, value |-> <<"1">>],
                    [label |-> <<"b">>, value |-> <<"2">>]>>]]

InitWrites ==
  /\ users = BankStore
  /\ proc = [p \in Procs |-> Idle]
  /\ uuidCounter = 3
  /\ Connected

NextWrites ==
  \/ \E username \in {NameAbc, NameCab, NameShort} :
       CreateUserRead(1, username, PwSecret1)
  \/ CreateUserWrite(1)
  \/ \E values \in {FormFull, FormBare, FormBadPin} :
       AddBankRead(1, 2, values)
  \/ AddBankWrite(1)
  \/ \E bankId \in 3..MaxUuid, values \in {FormFull, FormBare, FormTwoFields} :
       UpdateBankRead(1, 2, bankId, values)
  \/ UpdateBankWrite(1)
  \/ \E bankId \in 3..MaxUuid : DeleteBankRead(1, 2, bankId)
  \/ DeleteBankWrite(1)
  \/ \E userId \in 0..1,
        values \in {ChangeForm(PwSecret1, PwSecret2, PwSecret2),
                    ChangeForm(PwSecret2, PwSecret1, PwSecret1)} :
       ChangeMasterPasswordRead(1, userId, values)
  \/ ChangeMasterPasswordWrite(1)

SpecWrites == InitWrites /\ [][NextWrites]_vars

\* a stored value that encrypt produced
IsCiphertext(c) == c.kind = "blob"

\* every field of a stored bank record is ciphertext, or absent where optional
BankIsCiphertext(b) ==
  /\ \A f \in {"bankName", "phoneForOtp", "accountNumber",
               "netBankingUsername", "mobileBankingUsername"} :
       IsCiphertext(b[f])
  /\ \A f \in OptionalSecrets : b[f] = Absent \/ IsCiphertext(b[f])
  /\ \A i \in 1..Len(b.customFields.items) :
       /\ IsCiphertext(b.customFields.items[i].label)
       /\ IsCiphertext(b.customFields.items[i].value)

C16_UpdateChangesOneRecord ==
  [][Completes("updateBank") =>
       LET a == proc[1].args
           i == FindUserById(users, a.userId)
           k == BankIndex(users[i].banks, a.bankId)
           old == users[i].banks[k]
           new == users'[i].banks[k]
       IN  /\ proc'[1].result.kind = "success"
           /\ Len(users') = Len(users)
           /\ \A j \in 1..Len(users) : j # i => users'[j] = users[j]
           /\ users'[i].id = users[i].id
           /\ users'[i].username = users[i].username
           /\ users'[i].masterPassword = users[i].masterPassword
           /\ Len(users'[i].banks) = Len(users[i].banks)
           /\ \A n \in 1..Len(users[i].banks) :
                n # k => users'[i].banks[n] = users[i].banks[n]
           /\ new.id = a.bankId
           /\ IF a.values.customFields.present
                THEN /\ Len(new.customFields.items)
                          = Len(a.values.customFields.items)
                     /\ \A n \in 1..Len(new.customFields.items) :
                          /\ IsCiphertext(new.customFields.items[n].label)
                          /\ IsCiphertext(new.customFields.items[n].value)
                          /\ Decrypt(new.customFields.items[n].label)
                               = a.values.customFields.items[n].label
                          /\ Decrypt(new.customFields.items[n].value)
                               = a.values.customFields.items[n].value
                ELSE new.customFields = old.customFields]_vars

\* C16 witness: updateBank with no custom fields has returned success on the
\* second of two records, which still holds the two custom fields an earlier
\* update gave it; the first record is as it was stored initially.
C16_Witness ==
  /\ Returned(1, "updateBank")
  /\ proc[1].result.kind = "success"
  /\ ~proc[1].args.values.customFields.present
  /\ proc[1].args.bankId = 4
  /\ Len(users[2].banks) = 2
  /\ users[2].banks[1] = NewBank(FormFull, 3, 1)
  /\ users[2].banks[2].id = 4
  /\ Len(users[2].banks[2].customFields.items) = 2

(************ SpecReveal: adding, updating and revealing records ***********)
\* a net banking password that reads as the sentinel of decryptBank
FormNA == [FormBare EXCEPT !.netBankingPassword = NA]

InitReveal ==
  /\ users = BankStore
  /\ proc = [p \in Procs |-> Idle]
  /\ uuidCounter = 3
  /\ Connected

NextReveal ==
  \/ \E values \in {FormFull, FormBare, FormNA} : AddBankRead(1, 2, values)
  \/ AddBankWrite(1)
  \/ \E bankId \in 3..MaxUuid, values \in {FormFull, FormBare, FormNA} :
       UpdateBankRead(1, 2, bankId, values)
  \/ UpdateBankWrite(1)
  \/ \E userId \in 1..2, bankId \in BankIdInputs :
       DecryptBank(1, userId, bankId)

SpecReveal == InitReveal /\ [][NextReveal]_vars

\* what decryptBank shows for the optional secret f of a stored record
Revealed(us, userId, bankId, f) == DecryptBankResult(us, userId, bankId).data[f]

\* the optional secrets of every stored record that are absent reveal as 'N/A'
NAWhenAbsent(us) ==
  \A i \in 1..Len(us) : \A k \in 1..Len(us[i].banks) :
    \A f \in OptionalSecrets :
      us[i].banks[k][f] = Absent
        => Revealed(us, us[i].id, us[i].banks[k].id, f) = NA

\* no optional secret that is stored reveals as 'N/A'
NAOnlyWhenAbsent(us) ==
  \A i \in 1..Len(us) : \A k \in 1..Len(us[i].banks) :
    \A f \in OptionalSecrets :
      Revealed(us, us[i].id, us[i].banks[k].id, f) = NA
        => us[i].banks[k][f] = Absent

\* this step completes a write after which decryptBank shows, for each
\* optional secret of the written record, the plaintext stored last: addBank
\* stores a value that is not missing or empty and leaves the field absent
\* otherwise; updateBank stores a value that is not blank and otherwise keeps
\* what the record revealed before
RevealsLastStored ==
  /\ Completes("addBank") =>
       LET a == proc[1].args
           banks == users'[FindUserById(users', a.userId)].banks
           new == banks[Len(banks)]
       IN  \A f \in OptionalSecrets :
             /\ new[f] = Absent <=> (a.values[f] = Undefined \/ a.values[f] = <<>>)
             /\ Revealed(users', a.userId, new.id, f)
                  = IF new[f] = Absent THEN NA ELSE a.values[f]
  /\ Completes("updateBank") =>
       LET a == proc[1].args
       IN  \A f \in OptionalSecrets :
             Revealed(users', a.userId, a.bankId, f)
               = IF Omitted(a.values[f])
                   THEN Revealed(users, a.userId, a.bankId, f)
                   ELSE a.values[f]

\* C12 as amended: decryptBank on an existing record returns, for each
\* optional secret, 'N/A' whenever the field is absent in storage and
\* otherwise the plaintext most recently stored for it (which may itself be
\* the text 'N/A'); a record added with an optional field missing or empty
\* has that field absent, so it reveals 'N/A'.
C12_RevealsStoredOrNA ==
  [][RevealsLastStored /\ NAWhenAbsent(users) /\ NAWhenAbsent(users')]_vars

\* C12 witness: decryptBank has returned the record added from FormBare: no
\* PIN and no mobile banking password ('N/A'), the password of blanks as stored.
C12_Witness ==
  /\ Returned(1, "decryptBank")
  /\ proc[1].result.kind = "success"
  /\ proc[1].result.data.id = 4
  /\ proc[1].result.data.atmPin = NA
  /\ proc[1].result.data.mobileBankingPassword = NA
  /\ proc[1].result.data.netBankingPassword = <<" ", " ">>
  /\ StoredBank(users, 2, 4).atmPin = Absent

\* C12 as stated: decryptBank returns 'N/A' for an optional secret exactly
\* when the field is absent in storage, and otherwise the plaintext most
\* recently stored for it.
C12_NAExactlyWhenAbsent ==
  [][/\ RevealsLastStored
     /\ NAWhenAbsent(users')
     /\ NAOnlyWhenAbsent(users')]_vars

(************* SpecSignup: registering and logging in ***********************)
InitSignup ==
  /\ users = <<>>
  /\ proc = [p \in Procs |-> Idle]
  /\ uuidCounter = 0
  /\ Connected

NextSignup ==
  \/ \E username \in {NameAbc, NameAbcUpper, NameBob, NameShort},
        password \in {PwSecret1, PwSecret2, PwOld} :
       CreateUserRead(1, username, password)
  \/ CreateUserWrite(1)
  \/ \E username \in {NameAbc, NameAbcUpper, NameBob, <<>>},
        password \in {PwSecret1, PwSecret2} :
       VerifyMasterPassword(1, username, password)

SpecSignup == InitSignup /\ [][NextSignup]_vars

\* the user object of a result has no masterPassword field
NoMasterPassword(result) == "masterPassword" \notin DOMAIN result.data

InitRace ==
  /\ users = BankStore
  /\ proc = [p \in Procs |-> Idle]
  /\ uuidCounter = 3
  /\ Connected

NextRace ==
  \E p \in Procs :
    \/ AddBankRead(p, 2, FormBare)
    \/ AddBankWrite(p)
    \/ \E bankId \in 3..MaxUuid : UpdateBankRead(p, 2, bankId, FormNewPin)
    \/ UpdateBankWrite(p)
    \/ \E bankId \in 3..MaxUuid : DeleteBankRead(p, 2, bankId)
    \/ DeleteBankWrite(p)

SpecRace == InitRace /\ [][NextRace]_vars

\* the ids of the records in a bank list
BankIds(banks) == {banks[k].id : k \in 1..Len(banks)}

\* process p completes the $set of a deleteBank or an updateBank in this step
CompletesSet(p) ==
  /\ Writing(p, "deleteBank") \/ Writing(p, "updateBank")
  /\ proc'[p].pc = "done"

\* C14: two mutations of one user's bank list whose read and write steps
\* interleave are subject to a lost update: the write of a deleteBank or an
\* updateBank returns success and leaves the list exactly as that call
\* computed it from its own read, so a record another call added since that
\* read is gone and a record another call deleted since is back.
C14_LaterWriteReplacesList ==
  [][\A p \in Procs :
       CompletesSet(p) =>
         LET i == FindUserById(users, proc[p].args.userId)
             stale == proc[p].payload
         IN  /\ proc'[p].result.kind = "success"
             /\ users'[i].banks = stale
             /\ \A id \in BankIds(users[i].banks) \ BankIds(stale) :
                  id \notin BankIds(users'[i].banks)
             /\ \A id \in BankIds(stale) \ BankIds(users[i].banks) :
                  id \in BankIds(users'[i].banks)]_vars

\* C14 witness: addBank and deleteBank of record 3 have both returned
\* success, the add drew id 4 and pushed its record, and the list is empty:
\* the delete wrote the list it had computed before the push.
C14_Witness ==
  /\ Returned(1, "addBank")
  /\ proc[1].result.kind = "success"
  /\ Returned(2, "deleteBank")
  /\ proc[2].result.kind = "success"
  /\ proc[2].args.bankId = 3
  /\ uuidCounter = 4
  /\ users[2].banks = <<>>

(************* SpecAdds: addBank calls that run concurrently ***************)
\* two registered users who hold no bank record yet
AddsStore ==
  <<UserDoc(1, NameAbc, Encrypt(PwSecret1, 1), <<>>),
    UserDoc(2, NameBob, Encrypt(PwSecret2, 1), <<>>)>>

InitAdds ==
  /\ users = AddsStore
  /\ proc = [p \in Procs |-> Idle]
  /\ uuidCounter = 2
  /\ Connected

NextAdds ==
  \E p \in Procs :
    \/ \E userId \in {0, 2}, values \in {FormBare, FormBadPin} :
         AddBankRead(p, userId, values)
    \/ AddBankWrite(p)

SpecAdds == InitAdds /\ [][NextAdds]_vars

\* the ids of all stored bank records
StoredIds(us) == UNION {BankIds(us[i].banks) : i \in 1..Len(us)}

\* the ids of the records whose $push is still awaited
PendingIds == {proc[p].payload.id : p \in {q \in Procs : Writing(q, "addBank")}}

\* C15: when only addBank calls run, in any interleaving of their steps, the
\* record of every addBank that has returned success is in the bank list: the
\* $push appends the record to the list as it is then, no step removes or
\* changes a stored record, and every id drawn so far is stored or awaits its
\* push.
C15_AddsNeverLost ==
  [][/\ \A p \in Procs :
          (Writing(p, "addBank") /\ proc'[p].pc = "done") =>
            LET i == FindUserById(users, proc[p].args.userId)
            IN  /\ proc'[p].result.kind = "success"
                /\ users'[i].banks = Append(users[i].banks, proc[p].payload)
     /\ \A i \in 1..Len(users) :
          /\ Len(users'[i].banks) >= Len(users[i].banks)
          /\ SubSeq(users'[i].banks, 1, Len(users[i].banks)) = users[i].banks
     /\ \A id \in (Len(AddsStore) + 1)..uuidCounter :
          id \in StoredIds(users) \cup PendingIds]_vars

\* C15 witness: both processes have returned success from addBank calls for
\* the same user and both records are in that user's list, the record with
\* the id drawn second before the one drawn first: the two calls interleaved.
C15_Witness ==
  /\ \A p \in Procs : Returned(p, "addBank") /\ proc[p].result.kind = "success"
  /\ \A p \in Procs : proc[p].args.userId = 2
  /\ Len(users[2].banks) >= 2
  /\ users[2].banks[1].id = 4
  /\ users[2].banks[2].id = 3

(********** SpecDb: calls of connectToDatabase and of close ****************)
InitDb ==
  /\ users = <<>>
  /\ proc = [p \in Procs |-> Idle]
  /\ uuidCounter = 0
  /\ client = 0
  /\ db = NoDb
  /\ clients = <<>>

NextDb ==
  \E p \in Procs :
    \/ ConnectToDatabaseCall(p)
    \/ ConnectToDatabaseResume(p)
    \/ ConnectToDatabaseReject(p)
    \/ CloseDatabaseConnectionCall(p)
    \/ CloseDatabaseConnectionResume(p)

SpecDb == InitDb /\ [][NextDb]_vars

\* closeDatabaseConnection has closed no client so far
NoClose == \A c \in 1..Len(clients) : clients[c] # "closed"

\* every connectToDatabase call that has resolved returned the cached handle
SameHandle ==
  \A p \in Procs :
    (Returned(p, "connectToDatabase") /\ proc[p].result.kind = "db")
      => proc[p].result.data = db

\* C17: for any interleaving of connectToDatabase calls with no
\* closeDatabaseConnection in between, at most one client is constructed and
\* connected and every call that resolves returns the same cached Db handle;
\* when closeDatabaseConnection has closed the client, client and db are both
\* cleared, and a connectToDatabase that finds them cleared builds a new
\* client.
C17_OneClientOneHandle ==
  [][/\ NoClose' => (Cardinality(ConnectedClients') <= 1 /\ SameHandle')
     /\ \A p \in Procs :
          (proc[p].pc = "close" /\ proc'[p].pc = "done")
            => (client' = 0 /\ db' = NoDb)
     /\ \A p \in Procs :
          (/\ CanStart(p)
           /\ proc'[p].pc # "idle"
           /\ proc'[p].op = "connectToDatabase"
           /\ client = 0
           /\ db = NoDb)
            => (client' \notin 1..Len(clients) /\ client' # 0)]_vars

====
